---- MODULE Spec2Model ----
(***************************************************************************)
(* Mock serverless endpoints of the real-estate dashboard:                 *)
(*   lambda/data_aggregation.py    entry point A and its four operations   *)
(*   lambda/property_valuation.py  entry point B and its three operations  *)
(*   lambda/local_server.py        the Flask routes in front of both       *)
(*                                                                         *)
(* Modelling conventions                                                   *)
(*  - Python values are records [py, v] (py is the Python type, v the      *)
(*    value written as a string); JSON scalars are records [kind, text].   *)
(*    A dict read from JSON is a function over its possible keys whose     *)
(*    absent keys map to Missing.                                          *)
(*  - The module-level generator of Python's random is one shared state    *)
(*    rng; every primitive draw advances it and derives the sample from    *)
(*    the new state.  All randomness of a run is in the initial seed and   *)
(*    in the interleaving of the invocations that draw from it.            *)
(*  - Python ints are Integers.  Floats coming from random.uniform are     *)
(*    fixed point numbers in thousandths; the confidence arithmetic of     *)
(*    value_prediction is IEEE-754 double arithmetic on exact dyadic       *)
(*    numbers (see the Dbl operators).                                     *)
(*  - datetime.now() is not modelled; a month label is the number of       *)
(*    30-day periods it lies in the past.                                  *)
(*  - One handler invocation is a thread of the Flask development server;  *)
(*    a loop iteration is one step of its thread.                          *)
(***************************************************************************)
EXTENDS Integers, Sequences, FiniteSets, TLC

VARIABLES rng, pc, route, request, event, loc, invoked, result, response,
          start_rng, seen_rng, ndraws

vars == <<rng, pc, route, request, event, loc, invoked, result, response,
          start_rng, seen_rng, ndraws>>

(***************************************************************************)
(* Bounds                                                                  *)
(***************************************************************************)
\* number of states of the shared generator (and of seeds tried)
RngMod == 256
\* number of seeds tried when two invocations interleave
ConcSeeds == 2

Threads == {"t1", "t2"}

(***************************************************************************)
(* Python's random module                                                  *)
(***************************************************************************)
\* one step of the hidden module-level generator
RngNext(s) == (5 * s) % RngMod

RECURSIVE RngAdv(_, _)
\* the generator state after k primitive draws
RngAdv(s, k) == IF k = 0 THEN s ELSE RngAdv(RngNext(s), k - 1)

\* random.randint(a, b) computed from the state s the draw left behind
randint(s, a, b) == a + (s * (b - a + 1)) \div RngMod

\* random.uniform(a, b), a and b in thousandths
uniform(s, a, b) == a + (s * (b - a)) \div RngMod

\* random.choice(seq)
choice(s, seq) == seq[1 + (s * Len(seq)) \div RngMod]

\* random.random(), in thousandths
random(s) == (s * 1000) \div RngMod

(***************************************************************************)
(* JSON scalars and Python values                                          *)
(***************************************************************************)
JStr(s) == [kind |-> "string", text |-> s]
JNum(s) == [kind |-> "number", text |-> s]
JNull == [kind |-> "null", text |-> "null"]
JAbsent == [kind |-> "absent", text |-> ""]

PyStr(s) == [py |-> "str", v |-> s]
PyInt(s) == [py |-> "int", v |-> s]
PyNone == [py |-> "NoneType", v |-> "None"]
Missing == [py |-> "missing", v |-> ""]

\* json parsing of one scalar (flask's request.json)
json_loads(tok) ==
    CASE tok.kind = "string" -> PyStr(tok.text)
      [] tok.kind = "number" -> PyInt(tok.text)
      [] tok.kind = "null" -> PyNone
      [] OTHER -> Missing

\* variant of json_dumps that writes every identifier as a string (str(x))
json_dumps_str(val) ==
    CASE val.py = "str" -> JStr(val.v)
      [] val.py = "int" -> JStr(val.v)
      [] OTHER -> JNull

\* json.dumps of one scalar
json_dumps(val) ==
    CASE val.py = "str" -> JStr(val.v)
      [] val.py = "int" -> JNum(val.v)
      [] OTHER -> JNull

\* variant of get that also replaces None by the default (d.get(key) or default)
get_or(d, key, default) == IF d[key] \in {Missing, PyNone} THEN default ELSE d[key]

\* dict.get(key, default)
get(d, key, default) == IF d[key] = Missing THEN default ELSE d[key]

Keys == {"type", "user_id", "analysis_type", "property_id"}

\* the dict request.json yields for a JSON object
ParseObject(obj) == [k \in Keys |-> json_loads(obj[k])]

EmptyDict == [k \in Keys |-> Missing]

\* event = request.json or {}
RequestJsonOrEmpty(req) ==
    IF req.kind = "null" THEN EmptyDict ELSE ParseObject(req.obj)

(***************************************************************************)
(* Requests                                                                *)
(***************************************************************************)
SelectorsA == {JAbsent, JStr("portfolio"), JStr("performance"), JStr("cashflow"),
               JStr("maintenance"), JStr("bogus"), JStr("valuation"), JNull}
SelectorsB == {JAbsent, JStr("valuation"), JStr("market_analysis"),
               JStr("prediction"), JStr("bogus"), JStr("portfolio"), JNull}
UserIds == {JAbsent, JStr("42"), JNum("42"), JStr(""), JNull}
PropertyIds == {JAbsent, JStr("7"), JNum("7"), JNull}

ObjA(sel, id) == [k \in Keys |-> CASE k = "type" -> sel
                                   [] k = "user_id" -> id
                                   [] OTHER -> JAbsent]
ObjB(sel, id) == [k \in Keys |-> CASE k = "analysis_type" -> sel
                                   [] k = "property_id" -> id
                                   [] OTHER -> JAbsent]

NullBody == [kind |-> "null", obj |-> ObjA(JAbsent, JAbsent)]

RequestsA == {[kind |-> "object", obj |-> ObjA(s, u)] : s \in SelectorsA, u \in UserIds}
                \cup {NullBody}
RequestsB == {[kind |-> "object", obj |-> ObjB(s, p)] : s \in SelectorsB, p \in PropertyIds}
                \cup {NullBody}

NoLoc == [op |-> "none"]
NoResult == [statusCode |-> 0, body |-> [none |-> TRUE]]
NoResponse == [status |-> 0, json |-> NoResult]


(***************************************************************************)
(* Helpers                                                                 *)
(***************************************************************************)
RECURSIVE sum(_)
\* Python's sum() over a list of ints
sum(seq) == IF seq = <<>> THEN 0 ELSE Head(seq) + sum(Tail(seq))

\* variant of CountType that skips the last item
CountTypeButLast(items, ty) ==
    Cardinality({k \in 1..(Len(items) - 1) : items[k].type = ty})

\* len([m for m in items if m['type'] == ty])
CountType(items, ty) == Cardinality({k \in 1..Len(items) : items[k].type = ty})

Envelope(code, body) == [statusCode |-> code, body |-> body]

(***************************************************************************)
(* data_aggregation.py : aggregate_portfolio_data                          *)
(***************************************************************************)
NumProperties == 12

aggregate_portfolio_data_init(user_id) ==
    [op |-> "portfolio", user_id |-> user_id, i |-> 1, properties |-> <<>>,
     total_value |-> 0, total_income |-> 0, total_expenses |-> 0]

\* variant of aggregate_portfolio_data_iter that adds the income to total_expenses
aggregate_portfolio_data_iter_swapped(l, s) ==
    LET value == randint(RngAdv(s, 1), 300000, 800000)
        income == randint(RngAdv(s, 2), 2000, 5000)
        expenses == randint(RngAdv(s, 3), 500, 1500)
    IN [l EXCEPT !.i = @ + 1,
                 !.total_value = @ + value,
                 !.total_income = @ + income,
                 !.total_expenses = @ + income,
                 !.properties = Append(@,
                     [property_id |-> l.i,
                      current_value |-> value,
                      monthly_income |-> income,
                      monthly_expenses |-> expenses,
                      occupancy_rate |-> uniform(RngAdv(s, 4), 850, 1000)])]

\* one iteration of the loop over range(1, 13); 4 draws
aggregate_portfolio_data_iter(l, s) ==
    LET value == randint(RngAdv(s, 1), 300000, 800000)
        income == randint(RngAdv(s, 2), 2000, 5000)
        expenses == randint(RngAdv(s, 3), 500, 1500)
    IN [l EXCEPT !.i = @ + 1,
                 !.total_value = @ + value,
                 !.total_income = @ + income,
                 !.total_expenses = @ + expenses,
                 !.properties = Append(@,
                     [property_id |-> l.i,
                      current_value |-> value,
                      monthly_income |-> income,
                      monthly_expenses |-> expenses,
                      occupancy_rate |-> uniform(RngAdv(s, 4), 850, 1000)])]

aggregate_portfolio_data_result(l) ==
    Envelope(200,
        [user_id |-> json_dumps(l.user_id),
         total_properties |-> Len(l.properties),
         total_value |-> l.total_value,
         total_monthly_income |-> l.total_income,
         total_monthly_expenses |-> l.total_expenses,
         net_monthly_income |-> l.total_income - l.total_expenses,
         \* thousandths
         average_occupancy |->
             sum([k \in 1..Len(l.properties) |-> l.properties[k].occupancy_rate])
                 \div Len(l.properties),
         \* tenths of a percent
         portfolio_roi |-> ((l.total_income - l.total_expenses) * 12 * 1000) \div l.total_value,
         properties |-> l.properties])

(***************************************************************************)
(* data_aggregation.py : aggregate_performance_metrics                     *)
(***************************************************************************)
NumPerformanceMonths == 12

\* the metrics dict; 6 draws
aggregate_performance_metrics_init(user_id, s) ==
    [op |-> "performance", user_id |-> user_id, i |-> 0,
     metrics |-> [ytd_return |-> uniform(RngAdv(s, 1), 5000, 15000),
                  mtd_return |-> uniform(RngAdv(s, 2), -2000, 5000),
                  total_roi |-> uniform(RngAdv(s, 3), 6000, 12000),
                  cash_on_cash_return |-> uniform(RngAdv(s, 4), 5000, 10000),
                  cap_rate |-> uniform(RngAdv(s, 5), 4000, 8000),
                  gross_rent_multiplier |-> uniform(RngAdv(s, 6), 8000, 15000)],
     monthly_performance |-> <<>>]

\* one iteration of the loop over range(12); 4 draws
aggregate_performance_metrics_iter(l, s) ==
    [l EXCEPT !.i = @ + 1,
              !.monthly_performance = Append(@,
                  [month |-> l.i,
                   revenue |-> randint(RngAdv(s, 1), 40000, 60000),
                   expenses |-> randint(RngAdv(s, 2), 10000, 20000),
                   net_income |-> randint(RngAdv(s, 3), 25000, 40000),
                   occupancy |-> uniform(RngAdv(s, 4), 850, 980)])]

\* the return statement; 4 draws
aggregate_performance_metrics_result(l, s) ==
    Envelope(200,
        [user_id |-> json_dumps(l.user_id),
         metrics |-> l.metrics,
         monthly_performance |-> l.monthly_performance,
         best_performing_property |->
             [id |-> randint(RngAdv(s, 1), 1, 12),
              name |-> "Sunset Plaza Apartments",
              roi |-> uniform(RngAdv(s, 2), 8000, 12000)],
         worst_performing_property |->
             [id |-> randint(RngAdv(s, 3), 1, 12),
              name |-> "Riverside Condominiums",
              roi |-> uniform(RngAdv(s, 4), 4000, 7000)]])

(***************************************************************************)
(* data_aggregation.py : aggregate_cashflow_data                           *)
(***************************************************************************)
NumCashflowMonths == 6

aggregate_cashflow_data_init(user_id) ==
    [op |-> "cashflow", user_id |-> user_id, month |-> 0, cashflow_items |-> <<>>]

\* one iteration of the loop over range(6); 8 draws
aggregate_cashflow_data_iter(l, s) ==
    LET rental_income == randint(RngAdv(s, 1), 40000, 55000)
        mortgage_payments == randint(RngAdv(s, 2), 20000, 25000)
        maintenance == randint(RngAdv(s, 3), 2000, 5000)
        property_tax == randint(RngAdv(s, 4), 3000, 5000)
        insurance == randint(RngAdv(s, 5), 1500, 2500)
        utilities == randint(RngAdv(s, 6), 1000, 2000)
        property_management == randint(RngAdv(s, 7), 3000, 4000)
        total_expenses == mortgage_payments + maintenance + property_tax
                            + insurance + utilities + property_management
        net_cashflow == rental_income - total_expenses
    IN [l EXCEPT !.month = @ + 1,
                 !.cashflow_items = Append(@,
                     [month |-> l.month,
                      income |-> [rental |-> rental_income,
                                  other |-> randint(RngAdv(s, 8), 0, 2000)],
                      expenses |-> [mortgage |-> mortgage_payments,
                                    maintenance |-> maintenance,
                                    property_tax |-> property_tax,
                                    insurance |-> insurance,
                                    utilities |-> utilities,
                                    management |-> property_management],
                      net_cashflow |-> net_cashflow,
                      cumulative_cashflow |-> net_cashflow * (l.month + 1)])]

ExpensesOf(item) ==
    item.expenses.mortgage + item.expenses.maintenance + item.expenses.property_tax
        + item.expenses.insurance + item.expenses.utilities + item.expenses.management

aggregate_cashflow_data_result(l) ==
    LET items == l.cashflow_items
        n == Len(items)
    IN Envelope(200,
        [user_id |-> json_dumps(l.user_id),
         cashflow_summary |-> items,
         total_income_ytd |->
             sum([k \in 1..n |-> items[k].income.rental + items[k].income.other]),
         total_expenses_ytd |-> sum([k \in 1..n |-> ExpensesOf(items[k])]),
         net_cashflow_ytd |-> sum([k \in 1..n |-> items[k].net_cashflow]),
         \* thousandths
         average_monthly_cashflow |->
             (sum([k \in 1..n |-> items[k].net_cashflow]) * 1000) \div n])

(***************************************************************************)
(* data_aggregation.py : aggregate_maintenance_data                        *)
(***************************************************************************)
NumMaintenanceItems == 20

MaintenanceTypes == <<"Routine", "Emergency", "Preventive", "Upgrade">>
MaintenanceCategories ==
    <<"Plumbing", "Electrical", "HVAC", "Roofing", "Painting", "Landscaping">>
MaintenanceStatuses == <<"Completed", "In Progress", "Scheduled">>

aggregate_maintenance_data_init(user_id) ==
    [op |-> "maintenance", user_id |-> user_id, i |-> 0, maintenance_items |-> <<>>]

\* one iteration of the loop over range(20); 7 draws
aggregate_maintenance_data_iter(l, s) ==
    [l EXCEPT !.i = @ + 1,
              !.maintenance_items = Append(@,
                  [id |-> l.i + 1,
                   property_id |-> randint(RngAdv(s, 2), 1, 12),
                   type |-> choice(RngAdv(s, 3), MaintenanceTypes),
                   category |-> choice(RngAdv(s, 4), MaintenanceCategories),
                   cost |-> randint(RngAdv(s, 5), 100, 5000),
                   \* days before now
                   date |-> randint(RngAdv(s, 1), 1, 365),
                   status |-> choice(RngAdv(s, 6), MaintenanceStatuses),
                   vendor |-> randint(RngAdv(s, 7), 1, 10)])]

\* the statements after the loop; 1 draw
aggregate_maintenance_data_result(l, s) ==
    LET items == l.maintenance_items
        total_cost == sum([k \in 1..Len(items) |-> items[k].cost])
        \* thousandths
        avg_cost == (total_cost * 1000) \div Len(items)
    IN Envelope(200,
        [user_id |-> json_dumps(l.user_id),
         maintenance_items |-> items,
         total_maintenance_cost |-> total_cost,
         average_cost_per_item |-> avg_cost,
         maintenance_by_type |->
             [Routine |-> CountType(items, "Routine"),
              Emergency |-> CountType(items, "Emergency"),
              Preventive |-> CountType(items, "Preventive"),
              Upgrade |-> CountType(items, "Upgrade")],
         upcoming_maintenance |-> randint(RngAdv(s, 1), 2, 8)])


(***************************************************************************)
(* IEEE-754 double arithmetic for numbers in [0, 1)                        *)
(*                                                                         *)
(* A double x is the integer x * 2^57, written as three limbs <<h, m, l>>  *)
(* of 19 bits each (h * 2^38 + m * 2^19 + l).  Every double in             *)
(* [2^-5, 1) is such an integer; an operation computes the exact result    *)
(* and rounds it to 53 significant bits, ties to even.                     *)
(***************************************************************************)
LimbBase == 2 ^ 19

\* carry propagation
DblNorm(x) ==
    LET l == x[3] % LimbBase
        m2 == x[2] + (x[3] \div LimbBase)
        m == m2 % LimbBase
    IN <<x[1] + (m2 \div LimbBase), m, l>>

RECURSIVE BitLen(_)
BitLen(n) == IF n = 0 THEN 0 ELSE 1 + BitLen(n \div 2)

\* number of significant bits of a limb triple
DblBits(x) ==
    IF x[1] > 0 THEN 38 + BitLen(x[1])
    ELSE IF x[2] > 0 THEN 19 + BitLen(x[2]) ELSE BitLen(x[3])

\* round to nearest, ties to even, at 53 significant bits
DblRound(x) ==
    LET d == IF DblBits(x) > 53 THEN DblBits(x) - 53 ELSE 0
        unit == 2 ^ d
        low == x[3] % unit
        odd == (x[3] \div unit) % 2 = 1
        down == <<x[1], x[2], x[3] - low>>
    IN IF d = 0 \/ low = 0 THEN x
       ELSE IF 2 * low > unit \/ (2 * low = unit /\ odd)
            THEN DblNorm(<<x[1], x[2], x[3] - low + unit>>)
            ELSE down

\* int * float
DblMulInt(i, x) == DblRound(DblNorm(<<i * x[1], i * x[2], i * x[3]>>))

\* float - float, for a >= b
DblSub(a, b) == DblRound(DblNorm(<<a[1] - b[1], a[2] - b[2], a[3] - b[3]>>))

DblLess(a, b) ==
    \/ a[1] < b[1]
    \/ a[1] = b[1] /\ a[2] < b[2]
    \/ a[1] = b[1] /\ a[2] = b[2] /\ a[3] < b[3]

\* max(a, b): b only when it is greater than a
DblMax(a, b) == IF DblLess(a, b) THEN b ELSE a

\* the literals 0.05, 0.95 and 0.5 as doubles
Dbl_0_05 == <<26214, 209715, 104858>>
Dbl_0_95 == <<498073, 314572, 419424>>
Dbl_0_5 == <<262144, 0, 0>>

(***************************************************************************)
(* property_valuation.py : property_valuation                              *)
(***************************************************************************)
NumComparables == 5

\* comparable number k (0-based) of the list comprehension; 6 draws each,
\* after the 4 draws of the factors
Comparable(s, k) ==
    [address |-> randint(RngAdv(s, 4 + 6 * k + 1), 100, 999),
     sold_price |-> randint(RngAdv(s, 4 + 6 * k + 2), 280000, 750000),
     \* days before now
     sold_date |-> randint(RngAdv(s, 4 + 6 * k + 3), 1, 90),
     sqft |-> randint(RngAdv(s, 4 + 6 * k + 4), 1200, 3500),
     beds |-> randint(RngAdv(s, 4 + 6 * k + 5), 2, 5),
     baths |-> randint(RngAdv(s, 4 + 6 * k + 6), 1, 4)]

PropertyValuationDraws == 4 + 6 * NumComparables + 1

\* the whole function; values in whole dollars, factors in thousandths
property_valuation(property_id, s) ==
    LET base_value == randint(RngAdv(s, 1), 300000, 800000)
        market_adjustment == uniform(RngAdv(s, 2), 950, 1150)
        location_factor == uniform(RngAdv(s, 3), 900, 1200)
        condition_factor == uniform(RngAdv(s, 4), 850, 1100)
        current_value ==
            (((((base_value * market_adjustment) \div 1000) * location_factor) \div 1000)
                * condition_factor) \div 1000
    IN Envelope(200,
        [property_id |-> json_dumps(property_id),
         current_value |-> current_value,
         confidence_score |-> uniform(RngAdv(s, PropertyValuationDraws), 750, 950),
         factors |-> [market_adjustment |-> market_adjustment,
                      location_factor |-> location_factor,
                      condition_factor |-> condition_factor],
         comparables |-> [k \in 1..NumComparables |-> Comparable(s, k - 1)],
         value_range |-> [low |-> (current_value * 9) \div 10,
                          high |-> (current_value * 11) \div 10]])

(***************************************************************************)
(* property_valuation.py : market_analysis                                 *)
(***************************************************************************)
NumTrendMonths == 12

market_analysis_init(property_id) ==
    [op |-> "market_analysis", property_id |-> property_id, i |-> 0, trends |-> <<>>]

\* one iteration of the loop over range(12); 4 draws
market_analysis_iter(l, s) ==
    [l EXCEPT !.i = @ + 1,
              !.trends = Append(@,
                  [month |-> l.i,
                   median_price |-> randint(RngAdv(s, 1), 400000, 600000),
                   listings |-> randint(RngAdv(s, 2), 50, 200),
                   days_on_market |-> randint(RngAdv(s, 3), 15, 60),
                   price_per_sqft |-> randint(RngAdv(s, 4), 200, 400)])]

\* the return statement; 4 draws
market_analysis_result(l, s) ==
    Envelope(200,
        [property_id |-> json_dumps(l.property_id),
         market_trends |-> l.trends,
         market_health |-> choice(RngAdv(s, 1), <<"Strong", "Stable", "Growing">>),
         buyer_demand |-> choice(RngAdv(s, 2), <<"High", "Medium", "Low">>),
         inventory_level |-> uniform(RngAdv(s, 3), 1500, 6500),
         recommendation |->
             IF random(RngAdv(s, 4)) > 500 THEN "Hold" ELSE "Consider Selling"])

(***************************************************************************)
(* property_valuation.py : value_prediction                                *)
(***************************************************************************)
NumPredictions == 12

RECURSIVE Compound(_, _, _)
\* value * (1 + growth_rate) ** i, value in cents, growth_rate in 1/10000
Compound(value, growth_rate, i) ==
    IF i = 0 THEN value
    ELSE LET p == Compound(value, growth_rate, i - 1)
         IN p + (p \div 10000) * growth_rate + ((p % 10000) * growth_rate) \div 10000

\* variant of value_prediction_confidence without the floor
value_prediction_confidence_unfloored(i) ==
    DblSub(Dbl_0_95, DblMulInt(i, Dbl_0_05))

\* max(0.95 - (i * 0.05), 0.5)
value_prediction_confidence(i) ==
    DblMax(DblSub(Dbl_0_95, DblMulInt(i, Dbl_0_05)), Dbl_0_5)

\* current_value is drawn before the loop; 1 draw
value_prediction_init(property_id, s) ==
    [op |-> "prediction", property_id |-> property_id, i |-> 1,
     current_value |-> randint(RngAdv(s, 1), 400000, 700000),
     growth_rates |-> <<>>,
     predictions |-> <<>>]

\* the growth rate of one iteration: random.uniform(0.002, 0.008), in 1/10000
value_prediction_growth_rate(l, s) == uniform(RngAdv(s, 1), 20, 80)

\* one iteration of the loop over range(1, 13); 1 draw.  growth_rates is
\* the history of the local variable growth_rate.
value_prediction_iter(l, s) ==
    LET growth_rate == value_prediction_growth_rate(l, s)
        predicted_value == Compound(l.current_value * 100, growth_rate, l.i)
    IN [l EXCEPT !.i = @ + 1,
                 !.growth_rates = Append(@, growth_rate),
                 !.predictions = Append(@,
                     [month |-> l.i,
                      predicted_value |-> predicted_value,
                      confidence |-> value_prediction_confidence(l.i)])]

\* the return statement; 1 draw
value_prediction_result(l, s) ==
    Envelope(200,
        [property_id |-> json_dumps(l.property_id),
         current_value |-> l.current_value,
         predictions |-> l.predictions,
         annual_growth_rate |-> uniform(RngAdv(s, 1), 3000, 8000),
         risk_factors |-> <<"Interest rate changes", "Local market conditions",
                            "Economic indicators">>])


(***************************************************************************)
(* The dispatchers                                                         *)
(*                                                                         *)
(* A dispatcher reads the two request fields and calls one operation or    *)
(* returns the error envelope.  Its outcome is the record                  *)
(*   next    where the thread continues (an operation's loop or            *)
(*           "returned")                                                   *)
(*   loc     the local variables of the operation called, after the        *)
(*           statements that precede its loop                              *)
(*   result  the envelope, when the call has already returned              *)
(*   draws   the number of primitive draws made so far                     *)
(*   called  the operations called                                         *)
(***************************************************************************)
Outcome(next, l, res, draws, called) ==
    [next |-> next, loc |-> l, result |-> res, draws |-> draws, called |-> called]

\* data_aggregation.lambda_handler
data_aggregation_lambda_handler(ev, s) ==
    LET aggregation_type == get(ev, "type", PyStr("portfolio"))
        user_id == get(ev, "user_id", PyStr("1"))
    IN CASE aggregation_type = PyStr("portfolio") ->
                Outcome("portfolio", aggregate_portfolio_data_init(user_id),
                        NoResult, 0, <<"aggregate_portfolio_data">>)
         [] aggregation_type = PyStr("performance") ->
                Outcome("performance", aggregate_performance_metrics_init(user_id, s),
                        NoResult, 6, <<"aggregate_performance_metrics">>)
         [] aggregation_type = PyStr("cashflow") ->
                Outcome("cashflow", aggregate_cashflow_data_init(user_id),
                        NoResult, 0, <<"aggregate_cashflow_data">>)
         [] aggregation_type = PyStr("maintenance") ->
                Outcome("maintenance", aggregate_maintenance_data_init(user_id),
                        NoResult, 0, <<"aggregate_maintenance_data">>)
         [] OTHER ->
                Outcome("returned", NoLoc,
                        Envelope(400, [error |-> "Invalid aggregation type"]), 0, <<>>)

\* variant of property_valuation_lambda_handler whose prediction branch calls
\* market_analysis
property_valuation_lambda_handler_crossed(ev, s) ==
    LET property_id == get(ev, "property_id", PyNone)
        analysis_type == get(ev, "analysis_type", PyStr("valuation"))
    IN CASE analysis_type = PyStr("valuation") ->
                Outcome("returned", NoLoc, property_valuation(property_id, s),
                        PropertyValuationDraws, <<"property_valuation">>)
         [] analysis_type = PyStr("market_analysis") ->
                Outcome("market_analysis", market_analysis_init(property_id),
                        NoResult, 0, <<"market_analysis">>)
         [] analysis_type = PyStr("prediction") ->
                Outcome("market_analysis", market_analysis_init(property_id),
                        NoResult, 0, <<"market_analysis">>)
         [] OTHER ->
                Outcome("returned", NoLoc,
                        Envelope(400, [error |-> "Invalid analysis type"]), 0, <<>>)

\* property_valuation.lambda_handler
property_valuation_lambda_handler(ev, s) ==
    LET property_id == get(ev, "property_id", PyNone)
        analysis_type == get(ev, "analysis_type", PyStr("valuation"))
    IN CASE analysis_type = PyStr("valuation") ->
                Outcome("returned", NoLoc, property_valuation(property_id, s),
                        PropertyValuationDraws, <<"property_valuation">>)
         [] analysis_type = PyStr("market_analysis") ->
                Outcome("market_analysis", market_analysis_init(property_id),
                        NoResult, 0, <<"market_analysis">>)
         [] analysis_type = PyStr("prediction") ->
                Outcome("prediction", value_prediction_init(property_id, s),
                        NoResult, 1, <<"value_prediction">>)
         [] OTHER ->
                Outcome("returned", NoLoc,
                        Envelope(400, [error |-> "Invalid analysis type"]), 0, <<>>)

\* variant of jsonify that answers with the envelope's status code
jsonify_with_status(res) == [status |-> res.statusCode, json |-> res]

\* flask.jsonify(result): a response of status 200 whose JSON is result
jsonify(res) == [status |-> 200, json |-> res]

(***************************************************************************)
(* State machine                                                           *)
(***************************************************************************)
RouteA == "/data-aggregation"
RouteB == "/property-valuation"

\* thread t makes k primitive draws from the shared generator
Draw(t, k) ==
    /\ rng' = RngAdv(rng, k)
    /\ ndraws' = [ndraws EXCEPT ![t] = @ + k]
    /\ seen_rng' = IF k > 0 THEN [seen_rng EXCEPT ![t] = RngAdv(rng, k)] ELSE seen_rng

TypeOK ==
    /\ rng \in 0..(RngMod - 1)
    /\ pc \in [Threads -> {"idle", "recv", "lambda_handler", "portfolio", "performance",
                           "cashflow", "maintenance", "market_analysis", "prediction",
                           "returned", "done"}]

InitRest ==
    /\ event = [t \in Threads |-> EmptyDict]
    /\ loc = [t \in Threads |-> NoLoc]
    /\ invoked = [t \in Threads |-> <<>>]
    /\ result = [t \in Threads |-> NoResult]
    /\ response = [t \in Threads |-> NoResponse]
    /\ start_rng = [t \in Threads |-> 0]
    /\ seen_rng = [t \in Threads |-> 0]
    /\ ndraws = [t \in Threads |-> 0]

\* one request, any seed
Init ==
    /\ rng \in 0..(RngMod - 1)
    /\ \E r \in {RouteA, RouteB} :
         \E q \in IF r = RouteA THEN RequestsA ELSE RequestsB :
            /\ route = [t \in Threads |-> IF t = "t1" THEN r ELSE RouteA]
            /\ request = [t \in Threads |-> IF t = "t1" THEN q ELSE NullBody]
    /\ pc = [t \in Threads |-> IF t = "t1" THEN "recv" ELSE "idle"]
    /\ InitRest

\* two requests in flight: t1 serves any selector, t2 a valuation or an
\* unrecognized selector
ConcRequestsA == {[kind |-> "object", obj |-> ObjA(s, JStr("42"))] : s \in SelectorsA}
ConcRequestsB == {[kind |-> "object", obj |-> ObjB(s, JStr("7"))] : s \in SelectorsB}
ConcRequestsOther == {[kind |-> "object", obj |-> ObjB(s, JStr("8"))] :
                         s \in {JStr("valuation"), JStr("bogus")}}

InitConc ==
    /\ rng \in 1..ConcSeeds
    /\ \E r \in {RouteA, RouteB} :
         \E q \in IF r = RouteA THEN ConcRequestsA ELSE ConcRequestsB :
            \E q2 \in ConcRequestsOther :
                /\ route = [t \in Threads |-> IF t = "t1" THEN r ELSE RouteB]
                /\ request = [t \in Threads |-> IF t = "t1" THEN q ELSE q2]
    /\ pc = [t \in Threads |-> "recv"]
    /\ InitRest

\* event = request.json or {}, then the call of lambda_handler
handle_data_aggregation(t) ==
    /\ pc[t] = "recv" /\ route[t] = RouteA
    /\ event' = [event EXCEPT ![t] = RequestJsonOrEmpty(request[t])]
    /\ pc' = [pc EXCEPT ![t] = "lambda_handler"]
    /\ UNCHANGED <<rng, route, request, loc, invoked, result, response,
                   start_rng, seen_rng, ndraws>>

handle_property_valuation(t) ==
    /\ pc[t] = "recv" /\ route[t] = RouteB
    /\ event' = [event EXCEPT ![t] = RequestJsonOrEmpty(request[t])]
    /\ pc' = [pc EXCEPT ![t] = "lambda_handler"]
    /\ UNCHANGED <<rng, route, request, loc, invoked, result, response,
                   start_rng, seen_rng, ndraws>>

\* the outcome o of a dispatcher becomes the state of thread t
Dispatch(t, o) ==
    /\ pc' = [pc EXCEPT ![t] = o.next]
    /\ loc' = [loc EXCEPT ![t] = o.loc]
    /\ result' = [result EXCEPT ![t] = o.result]
    /\ invoked' = [invoked EXCEPT ![t] = @ \o o.called]
    /\ start_rng' = [start_rng EXCEPT ![t] = rng]
    /\ rng' = RngAdv(rng, o.draws)
    /\ ndraws' = [ndraws EXCEPT ![t] = o.draws]
    /\ seen_rng' = [seen_rng EXCEPT ![t] = RngAdv(rng, o.draws)]
    /\ UNCHANGED <<route, request, event, response>>

lambda_handler_A(t) ==
    /\ pc[t] = "lambda_handler" /\ route[t] = RouteA
    /\ Dispatch(t, data_aggregation_lambda_handler(event[t], rng))

lambda_handler_B(t) ==
    /\ pc[t] = "lambda_handler" /\ route[t] = RouteB
    /\ Dispatch(t, property_valuation_lambda_handler(event[t], rng))

\* a loop iteration of thread t: new locals l, k draws
Iterate(t, l, k) ==
    /\ loc' = [loc EXCEPT ![t] = l]
    /\ Draw(t, k)
    /\ UNCHANGED <<pc, route, request, event, invoked, result, response, start_rng>>

\* the return of the operation of thread t: envelope res, k draws
Return(t, res, k) ==
    /\ result' = [result EXCEPT ![t] = res]
    /\ pc' = [pc EXCEPT ![t] = "returned"]
    /\ Draw(t, k)
    /\ UNCHANGED <<route, request, event, loc, invoked, response, start_rng>>

aggregate_portfolio_data_loop(t) ==
    /\ pc[t] = "portfolio" /\ loc[t].i < NumProperties + 1
    /\ Iterate(t, aggregate_portfolio_data_iter(loc[t], rng), 4)

aggregate_portfolio_data_return(t) ==
    /\ pc[t] = "portfolio" /\ ~(loc[t].i < NumProperties + 1)
    /\ Return(t, aggregate_portfolio_data_result(loc[t]), 0)

aggregate_performance_metrics_loop(t) ==
    /\ pc[t] = "performance" /\ loc[t].i < NumPerformanceMonths
    /\ Iterate(t, aggregate_performance_metrics_iter(loc[t], rng), 4)

aggregate_performance_metrics_return(t) ==
    /\ pc[t] = "performance" /\ ~(loc[t].i < NumPerformanceMonths)
    /\ Return(t, aggregate_performance_metrics_result(loc[t], rng), 4)

aggregate_cashflow_data_loop(t) ==
    /\ pc[t] = "cashflow" /\ loc[t].month < NumCashflowMonths
    /\ Iterate(t, aggregate_cashflow_data_iter(loc[t], rng), 8)

aggregate_cashflow_data_return(t) ==
    /\ pc[t] = "cashflow" /\ ~(loc[t].month < NumCashflowMonths)
    /\ Return(t, aggregate_cashflow_data_result(loc[t]), 0)

aggregate_maintenance_data_loop(t) ==
    /\ pc[t] = "maintenance" /\ loc[t].i < NumMaintenanceItems
    /\ Iterate(t, aggregate_maintenance_data_iter(loc[t], rng), 7)

aggregate_maintenance_data_return(t) ==
    /\ pc[t] = "maintenance" /\ ~(loc[t].i < NumMaintenanceItems)
    /\ Return(t, aggregate_maintenance_data_result(loc[t], rng), 1)

market_analysis_loop(t) ==
    /\ pc[t] = "market_analysis" /\ loc[t].i < NumTrendMonths
    /\ Iterate(t, market_analysis_iter(loc[t], rng), 4)

market_analysis_return(t) ==
    /\ pc[t] = "market_analysis" /\ ~(loc[t].i < NumTrendMonths)
    /\ Return(t, market_analysis_result(loc[t], rng), 4)

value_prediction_loop(t) ==
    /\ pc[t] = "prediction" /\ loc[t].i < NumPredictions + 1
    /\ Iterate(t, value_prediction_iter(loc[t], rng), 1)

value_prediction_return(t) ==
    /\ pc[t] = "prediction" /\ ~(loc[t].i < NumPredictions + 1)
    /\ Return(t, value_prediction_result(loc[t], rng), 1)

\* return jsonify(result)
handle_return(t) ==
    /\ pc[t] = "returned"
    /\ response' = [response EXCEPT ![t] = jsonify(result[t])]
    /\ pc' = [pc EXCEPT ![t] = "done"]
    /\ UNCHANGED <<rng, route, request, event, loc, invoked, result,
                   start_rng, seen_rng, ndraws>>

Next ==
    \E t \in Threads :
        \/ handle_data_aggregation(t)
        \/ handle_property_valuation(t)
        \/ lambda_handler_A(t)
        \/ lambda_handler_B(t)
        \/ aggregate_portfolio_data_loop(t)
        \/ aggregate_portfolio_data_return(t)
        \/ aggregate_performance_metrics_loop(t)
        \/ aggregate_performance_metrics_return(t)
        \/ aggregate_cashflow_data_loop(t)
        \/ aggregate_cashflow_data_return(t)
        \/ aggregate_maintenance_data_loop(t)
        \/ aggregate_maintenance_data_return(t)
        \/ market_analysis_loop(t)
        \/ market_analysis_return(t)
        \/ value_prediction_loop(t)
        \/ value_prediction_return(t)
        \/ handle_return(t)

Spec == Init /\ [][Next]_vars


\* the Flask development server serves requests on concurrent threads
SpecConc == InitConc /\ [][Next]_vars


(***************************************************************************)
(* Properties                                                              *)
(***************************************************************************)
\* the handler of thread t has returned
Returned(t) == pc[t] \in {"returned", "done"}

\* the JSON scalar the request of thread t carries under key (JAbsent if none)
RequestToken(t, key) ==
    IF request[t].kind = "null" THEN JAbsent ELSE request[t].obj[key]

SelectorKey(t) == IF route[t] = RouteA THEN "type" ELSE "analysis_type"
IdKey(t) == IF route[t] = RouteA THEN "user_id" ELSE "property_id"

RecognizedSelectors(t) ==
    IF route[t] = RouteA
    THEN {"portfolio", "performance", "cashflow", "maintenance"}
    ELSE {"valuation", "market_analysis", "prediction"}

Recognized(t) ==
    LET tok == RequestToken(t, SelectorKey(t))
    IN tok.kind = "string" /\ tok.text \in RecognizedSelectors(t)

SelectorAbsent(t) == RequestToken(t, SelectorKey(t)) = JAbsent

\* the operation the selector of thread t names
ExpectedOperation(t) ==
    LET tok == RequestToken(t, SelectorKey(t))
        name == IF tok = JAbsent
                THEN (IF route[t] = RouteA THEN "portfolio" ELSE "valuation")
                ELSE tok.text
    IN CASE name = "portfolio" -> "aggregate_portfolio_data"
         [] name = "performance" -> "aggregate_performance_metrics"
         [] name = "cashflow" -> "aggregate_cashflow_data"
         [] name = "maintenance" -> "aggregate_maintenance_data"
         [] name = "valuation" -> "property_valuation"
         [] name = "market_analysis" -> "market_analysis"
         [] OTHER -> "value_prediction"

RECURSIVE Occurrences(_, _)
\* number of records of seq whose type is ty
Occurrences(seq, ty) ==
    IF Len(seq) = 0 THEN 0
    ELSE (IF Head(seq).type = ty THEN 1 ELSE 0) + Occurrences(Tail(seq), ty)

RECURSIVE FieldSum(_, _)
\* sum of field f over the records of seq
FieldSum(seq, f) ==
    IF Len(seq) = 0 THEN 0 ELSE Head(seq)[f] + FieldSum(Tail(seq), f)

\* C1: in every month record of a cash-flow response, net_cashflow equals
\* income.rental + income.other minus the sum of the six expense fields.
C1_NetCashflowIncludesAllIncome ==
    \A t \in Threads :
        (Returned(t) /\ invoked[t] = <<"aggregate_cashflow_data">>) =>
            LET items == result[t].body.cashflow_summary
            IN /\ Len(items) = NumCashflowMonths
               /\ \A k \in 1..Len(items) :
                    items[k].net_cashflow =
                        items[k].income.rental + items[k].income.other - ExpensesOf(items[k])

\* C2: a value-prediction call uses one growth rate for all 12 projections,
\* predicted_value(i) = current_value * (1 + growth_rate)^i, and the
\* projections increase with i when the growth rate is positive.
C2_OneGrowthRate ==
    \A t \in Threads :
        (Returned(t) /\ invoked[t] = <<"value_prediction">>) =>
            LET rates == loc[t].growth_rates
                preds == result[t].body.predictions
                cents == result[t].body.current_value * 100
            IN /\ Len(preds) = NumPredictions
               /\ \A i \in 1..Len(preds) :
                    /\ rates[i] = rates[1]
                    /\ preds[i].predicted_value = Compound(cents, rates[1], i)
               /\ rates[1] > 0 =>
                    \A i \in 2..Len(preds) :
                        preds[i].predicted_value > preds[i - 1].predicted_value

\* C3: a request whose selector is not recognized gets status 400 and a body
\* with the error field only (entry point B: "Invalid analysis type"), no
\* operation is called and no random value is drawn.
C3_UnrecognizedSelector ==
    \A t \in Threads :
        (Returned(t) /\ ~Recognized(t) /\ ~SelectorAbsent(t)) =>
            /\ result[t].statusCode = 400
            /\ DOMAIN result[t].body = {"error"}
            /\ route[t] = RouteB => result[t].body = [error |-> "Invalid analysis type"]
            /\ invoked[t] = <<>>
            /\ loc[t] = NoLoc
            /\ ndraws[t] = 0
            /\ rng = start_rng[t]

C3_Witness ==
    \E t \in Threads :
        /\ pc[t] = "done" /\ route[t] = RouteB
        /\ RequestToken(t, "analysis_type") = JNull
        /\ result[t].statusCode = 400
        /\ rng # 0

\* C4: a request whose selector is recognized or absent calls exactly the
\* operation the selector (or the default) names and gets status 200; any
\* other status occurs only for an unrecognized selector.
C4_RecognizedSelector ==
    \A t \in Threads :
        /\ Len(invoked[t]) <= 1
        /\ Returned(t) =>
            /\ (Recognized(t) \/ SelectorAbsent(t)) =>
                    /\ invoked[t] = <<ExpectedOperation(t)>>
                    /\ result[t].statusCode = 200
            /\ result[t].statusCode # 200 => (~Recognized(t) /\ ~SelectorAbsent(t))

C4_Witness ==
    \E t \in Threads :
        /\ pc[t] = "done" /\ route[t] = RouteB
        /\ RequestToken(t, "analysis_type") = JStr("prediction")
        /\ invoked[t] = <<"value_prediction">>
        /\ result[t].statusCode = 200

\* C5: in a portfolio response total_properties is 12, the three totals are
\* the sums of the per-property fields over the 12 records and
\* net_monthly_income is total_monthly_income - total_monthly_expenses.
C5_PortfolioTotals ==
    \A t \in Threads :
        (Returned(t) /\ invoked[t] = <<"aggregate_portfolio_data">>) =>
            LET b == result[t].body
            IN /\ b.total_properties = 12
               /\ Len(b.properties) = 12
               /\ b.total_value = FieldSum(b.properties, "current_value")
               /\ b.total_monthly_income = FieldSum(b.properties, "monthly_income")
               /\ b.total_monthly_expenses = FieldSum(b.properties, "monthly_expenses")
               /\ b.net_monthly_income = b.total_monthly_income - b.total_monthly_expenses

C5_Witness ==
    \E t \in Threads :
        /\ pc[t] = "done" /\ invoked[t] = <<"aggregate_portfolio_data">>
        /\ LET ps == result[t].body.properties
           IN /\ ps[1].current_value # ps[2].current_value
              /\ ps[1].monthly_income # ps[1].monthly_expenses + 1500
              /\ \E k \in 1..Len(ps) : ps[k].monthly_expenses > 1000

\* C6: maintenance_by_type has exactly the keys Routine, Emergency,
\* Preventive and Upgrade, each count is the number of records of that type
\* (0 for a type that was not drawn) and the counts add up to 20, the number
\* of records.
C6_MaintenanceByType ==
    \A t \in Threads :
        (Returned(t) /\ invoked[t] = <<"aggregate_maintenance_data">>) =>
            LET b == result[t].body
                c == b.maintenance_by_type
            IN /\ DOMAIN c = {"Routine", "Emergency", "Preventive", "Upgrade"}
               /\ \A ty \in DOMAIN c : c[ty] = Occurrences(b.maintenance_items, ty)
               /\ Len(b.maintenance_items) = 20
               /\ c.Routine + c.Emergency + c.Preventive + c.Upgrade = 20

C6_Witness ==
    \E t \in Threads :
        /\ pc[t] = "done" /\ invoked[t] = <<"aggregate_maintenance_data">>
        /\ LET c == result[t].body.maintenance_by_type
           IN /\ c.Emergency = 0
              /\ c.Routine > 0 /\ c.Preventive > 0

\* |a - b| <= tol for limb triples a and b (not rounded)
DblNear(a, b, tol) ==
    LET d == DblNorm(<<a[1] - b[1], a[2] - b[2], a[3] - b[3]>>)
    IN \/ d[1] = 0 /\ d[2] = 0 /\ d[3] <= tol
       \/ d[1] = -1 /\ d[2] = LimbBase - 1 /\ LimbBase - d[3] <= tol

\* C7: the confidence of month i is max(0.95 - i * 0.05, 0.5): it is within
\* two units in the last place (2 * 2^-53) of (19 - i) / 20 for i < 9, never
\* increases with i, is never below 0.5 and is exactly 0.5 from month 9 on.
C7_Confidence ==
    \A t \in Threads :
        (pc[t] \in {"prediction", "returned", "done"}
            /\ invoked[t] = <<"value_prediction">>) =>
            LET preds == loc[t].predictions
            IN \A k \in 1..Len(preds) :
                /\ preds[k].month = k
                /\ ~DblLess(preds[k].confidence, Dbl_0_5)
                /\ k > 1 => ~DblLess(preds[k - 1].confidence, preds[k].confidence)
                /\ k >= 9 => preds[k].confidence = Dbl_0_5
                /\ k < 9 =>
                     DblNear(DblNorm(<<20 * preds[k].confidence[1],
                                       20 * preds[k].confidence[2],
                                       20 * preds[k].confidence[3]>>),
                             <<(19 - k) * LimbBase, 0, 0>>, 20 * 32)
                /\ Returned(t) => result[t].body.predictions = preds

C7_Witness ==
    \E t \in Threads :
        /\ pc[t] = "done" /\ invoked[t] = <<"value_prediction">>
        /\ LET preds == result[t].body.predictions
           IN /\ Len(preds) = 12
              /\ preds[9].confidence = Dbl_0_5
              /\ DblLess(Dbl_0_5, preds[8].confidence)
              /\ DblLess(preds[2].confidence, preds[1].confidence)

\* C8: a response of status 200 carries the identifier of the request
\* unchanged: user_id (default "1" when absent) for entry point A,
\* property_id (null when absent) for entry point B.
C8_IdentifierEcho ==
    \A t \in Threads :
        (Returned(t) /\ result[t].statusCode = 200) =>
            LET tok == RequestToken(t, IdKey(t))
            IN IF route[t] = RouteA
               THEN result[t].body.user_id = (IF tok = JAbsent THEN JStr("1") ELSE tok)
               ELSE result[t].body.property_id = (IF tok = JAbsent THEN JNull ELSE tok)

C8_Witness ==
    \E t \in Threads :
        /\ pc[t] = "done" /\ route[t] = RouteA
        /\ RequestToken(t, "user_id") = JNum("42")
        /\ result[t].statusCode = 200
        /\ result[t].body.user_id = JNum("42")

\* C9: the random values an invocation samples are not influenced by the
\* sampling of another invocation: the generator state an invocation has
\* last seen is the one its own draws alone lead to.
C9_InvocationIsolation ==
    \A t \in Threads : seen_rng[t] = RngAdv(start_rng[t], ndraws[t])

\* C10 as stated: the HTTP response has the handler's status code and the
\* handler's body.
C10_StatusRelayed ==
    \A t \in Threads :
        pc[t] = "done" =>
            /\ response[t].status = result[t].statusCode
            /\ response[t].json = result[t].body

\* C10 as amended: a JSON object is forwarded unmodified (null as the empty
\* dict), the HTTP status is always 200 and the HTTP body is the handler's
\* envelope unchanged, whose statusCode is 400 for an unrecognized selector.
C10_EnvelopeRelayed ==
    \A t \in Threads :
        /\ pc[t] \notin {"idle", "recv"} =>
              \A k \in Keys :
                 IF RequestToken(t, k) = JAbsent
                 THEN event[t][k] = Missing
                 ELSE event[t][k] # Missing /\ json_dumps(event[t][k]) = RequestToken(t, k)
        /\ pc[t] = "done" =>
              /\ response[t].status = 200
              /\ response[t].json = result[t]
              /\ response[t].json.statusCode =
                    (IF Recognized(t) \/ SelectorAbsent(t) THEN 200 ELSE 400)

C10_Witness ==
    \E t \in Threads :
        /\ pc[t] = "done" /\ route[t] = RouteA
        /\ RequestToken(t, "type") = JStr("bogus")
        /\ response[t].status = 200
        /\ response[t].json.statusCode = 400

====
